---- MODULE Spec2Model ----
(***************************************************************************)
(* A private, single-node star-registry blockchain (src/src/block.js):     *)
(* class Block (validate, getBData) and class Blockchain (_addBlock,       *)
(* submitStar, validateChain, getStarsByWalletAddress, ...).               *)
(*                                                                         *)
(* JavaScript runs every function to completion up to its next `await`.    *)
(* One action of this model is therefore one such synchronous run: the     *)
(* start of a call up to its first suspension, or the resumption of a      *)
(* suspended call up to its next suspension or its end.  Resumptions of    *)
(* different in-flight calls interleave freely.                            *)
(***************************************************************************)
EXTENDS Integers, Sequences, FiniteSets, TLC

VARIABLES
    chain,      \* Blockchain.chain: the array of Block objects
    height,     \* Blockchain.height: the cached chain height
    now,        \* the clock in whole seconds: new Date().getTime() less its
                \* last three digits (the code keeps it as a decimal string)
    ops,        \* the calls in flight and those that ended since the last call
    sealed,     \* history: every block as _addBlock pushed it
    tampers     \* history: the number of fields overwritten from outside

vars == <<chain, height, now, ops, sealed, tampers>>

----------------------------------------------------------------------------
(* Bounds of the model. *)

MaxChain == 3       \* blocks in the chain, the genesis block included
MaxOps == 2         \* calls in flight at once
MaxTamper == 1      \* fields an outsider overwrites in one behaviour

(* The validity window of a challenge, in seconds. *)
Window == 300

----------------------------------------------------------------------------
(* JavaScript values. *)

Null == <<>>                \* null
NaN == <<"NaN">>            \* the number NaN
Forged == <<"forged">>      \* a hash string that is no digest of this model

Addresses == {"A", "B"}

\* The star names submitted, as strings of code points: "é".
Stars == {<<233>>}

\* The chain is constructed at this second of the clock.
Start == Window

\* The instants the clock shows.
Instants == {Start, Start + Window - 1, Start + Window, Start + Window + 1}

\* The issuance times of the challenge messages in use.
IssueTimes == {Start}

(* requestMessageOwnershipVerification: `${address}:${seconds}:starRegistry`, *)
(* kept as its ':'-separated fields.                                       *)
requestMessageOwnershipVerification(address, t) ==
    <<address, t, "starRegistry">>

NoMessage == <<"", 0, "">>

\* parseInt(message.split(':')[1])
TimeInMessage(message) == message[2]

(* A signature names the key that made it and the message it signs. *)
Sign(address, message) == [signer |-> address, msg |-> message]

NoSignature == Sign("", NoMessage)

\* bitcoinMessage.verify(message, address, signature)
Verify(message, address, signature) ==
    signature.signer = address /\ signature.msg = message

----------------------------------------------------------------------------
(* Block: the payload encoding. *)

\* Buffer.from(string): the UTF-8 bytes of a string.
Utf8Char(c) == IF c < 128 THEN <<c>> ELSE <<192 + (c \div 64), 128 + (c % 64)>>

RECURSIVE Utf8(_)
Utf8(s) == IF s = <<>> THEN <<>> ELSE Utf8Char(Head(s)) \o Utf8(Tail(s))

\* .toString('hex'): two hexadecimal digits per byte.
RECURSIVE ToHex(_)
ToHex(bytes) ==
    IF bytes = <<>> THEN <<>>
    ELSE <<Head(bytes) \div 16, Head(bytes) % 16>> \o ToHex(Tail(bytes))

\* hex2ascii: one character per pair of hexadecimal digits.
RECURSIVE hex2ascii(_)
hex2ascii(hex) ==
    IF Len(hex) < 2 THEN <<>>
    ELSE <<16 * hex[1] + hex[2]>> \o hex2ascii(Tail(Tail(hex)))

\* The object submitStar stores: { address, message, signature, star }.
StarData(address, message, signature, star) ==
    [kind |-> "star", address |-> address, message |-> message,
     signature |-> signature, star |-> star]

\* The object initializeChain stores: { data: 'Genesis Block' }.
GenesisData ==
    [kind |-> "genesis", address |-> "", message |-> NoMessage,
     signature |-> NoSignature, star |-> <<>>]

(* Buffer.from(JSON.stringify(data)).toString('hex'): the JSON text keeps   *)
(* the object's shape; its ASCII parts are written as they are and the     *)
(* star's characters are UTF-8 encoded and written in hexadecimal.         *)
EncodeBody(data) == [data EXCEPT !.star = ToHex(Utf8(data.star))]

\* A body that is no hexadecimal JSON text: JSON.parse throws on it.
GarbageBody ==
    [kind |-> "garbage", address |-> "", message |-> NoMessage,
     signature |-> NoSignature, star |-> <<>>]

\* JSON.parse(hex2ascii(body))
DecodeBody(body) == [body EXCEPT !.star = hex2ascii(body.star)]

\* new Block(data)
Block(data) ==
    [hash |-> Null, height |-> 0, body |-> EncodeBody(data), time |-> 0,
     previousBlockHash |-> Null]

----------------------------------------------------------------------------
(* Block: the digest. *)

\* JSON.stringify of a value that is null, a number or a string: NaN is
\* written as null.
JsonValue(v) == IF v = NaN THEN Null ELSE v

\* A slip: the body is left out of the text that is hashed.
JsonStringify_NoBody(block) ==
    <<JsonValue(block.hash), block.height, GarbageBody, block.time,
      JsonValue(block.previousBlockHash)>>

\* JSON.stringify(block): the fields in their order of creation.
JsonStringify(block) ==
    <<JsonValue(block.hash), block.height, block.body, block.time,
      JsonValue(block.previousBlockHash)>>

\* SHA256(text).toString(): a digest that differs whenever the text does.
SHA256(text) == <<"sha256">> \o text

\* A slip: the digest is recomputed over the block with its hash in place.
Validate_KeepsHash(block) == block.hash = <<"sha256">> \o
    <<block.hash, block.height, block.body, block.time, block.previousBlockHash>>

\* Block.validate: SHA256(JSON.stringify({ ...self, hash: null })) against
\* the stored hash.
Validate(block) ==
    block.hash = SHA256(JsonStringify([block EXCEPT !.hash = Null]))

(* Block.getBData: the body is decoded and parsed first (a throw inside    *)
(* the executor rejects the promise), then the genesis block is refused.   *)
getBData(block) ==
    IF block.body.kind = "garbage"
    THEN [settled |-> "rejected", reason |-> "SyntaxError", data |-> GenesisData]
    ELSE IF block.height = 0
    THEN [settled |-> "rejected", reason |-> "Genesis block doesn't contain data.",
          data |-> GenesisData]
    ELSE [settled |-> "resolved", reason |-> "", data |-> DecodeBody(block.body)]

----------------------------------------------------------------------------
(* Blockchain._addBlock, up to its await. *)

\* A slip: the block before the last one is read as the previous block.
PreviousBlock_OffByOne(c) == c[IF Len(c) > 1 THEN Len(c) - 1 ELSE 1]

\* self.chain[self.chain.length - 1]
PreviousBlock(c) == c[Len(c)]

\* A slip: the new block is never linked to the previous block's hash.
SealBlock_NoLink(c, block, t) ==
    LET linked ==
            IF Len(c) = 0
            THEN [block EXCEPT !.height = 0, !.time = t]
            ELSE [block EXCEPT !.height = PreviousBlock(c).height + 1,
                               !.time = t]
    IN  [linked EXCEPT !.hash = <<"sha256", Null, linked.height, linked.body,
                                   linked.time, Null>>]

(* A slip: the block is pushed with its fields set and its hash still to   *)
(* be computed.                                                            *)
SealBlock_Unhashed(c, block, t) ==
    IF Len(c) = 0
    THEN [block EXCEPT !.height = 0, !.time = t]
    ELSE [block EXCEPT !.height = c[Len(c)].height + 1,
                       !.previousBlockHash = c[Len(c)].hash,
                       !.time = t]

(* The block as _addBlock pushes it: height, previousBlockHash and time    *)
(* are set, then the hash is computed over the block, whose hash is still  *)
(* the constructor's null.                                                 *)
SealBlock(c, block, t) ==
    LET linked ==
            IF Len(c) = 0
            THEN [block EXCEPT !.height = 0, !.time = t]
            ELSE [block EXCEPT !.height = PreviousBlock(c).height + 1,
                               !.previousBlockHash = PreviousBlock(c).hash,
                               !.time = t]
    IN  [linked EXCEPT !.hash = SHA256(JsonStringify(linked))]

\* A slip: the new block is written over the last star of the chain.
PushBlock_ReplaceLast(c, block, t) ==
    IF Len(c) <= 1 THEN Append(c, SealBlock(c, block, t))
    ELSE [c EXCEPT ![Len(c)] = SealBlock(c, block, t)]

\* self.chain.push(block)
PushBlock(c, block, t) == Append(c, SealBlock(c, block, t))

\* A slip: the cached height is set from the chain as it was before the push.
HeightAfterPush_Stale(c, block, t) == Len(c) - 1

\* self.height = 0 on the genesis path, self.height = block.height otherwise
HeightAfterPush(c, block, t) ==
    IF Len(c) = 0 THEN 0 ELSE SealBlock(c, block, t).height

----------------------------------------------------------------------------
(* The calls.  A call is a record: its promise (settled, reason), its      *)
(* arguments and the local variables of its closure, and pc, the await it  *)
(* is suspended at:                                                        *)
(*   "validate"  validateChain, at `await block.validate()` for block i    *)
(*   "addBlock"  _addBlock, at `await self.validateChain()`                *)
(*   "submit"    submitStar, at `await self._addBlock(newBlock)`           *)
(*   "decode"    getStarsByWalletAddress, the forEach callback of block i  *)
(*               at `await block.getBData()`                               *)
(*   "done"      nothing of the call is left to run                        *)
(* The record of a call that has nothing left to run is kept until the     *)
(* next call is made.                                                      *)

NewOp(kind) ==
    [kind |-> kind, pc |-> "done", settled |-> "pending", reason |-> "",
     address |-> "", message |-> NoMessage, signature |-> NoSignature,
     star |-> <<>>, callTime |-> now,
     verified |-> FALSE,        \* history: the signature verifier was called
     blockAt |-> 0,             \* the index the call's new block was pushed at
     addBlock |-> "none",       \* the promise of the call's _addBlock
     i |-> 0, isValid |-> TRUE, errorLog |-> <<>>,
     decodes |-> <<>>, stars |-> <<>>,
     argument |-> Null,         \* the height or hash a lookup was given
     result |-> Null,           \* what a lookup resolved with
     unhandled |-> 0,           \* rejections no handler received
     interfered |-> FALSE]      \* history: a block was modified since the call

IsLive(op) == op.pc # "done"

\* The calls in flight.
Live == SelectSeq(ops, IsLive)

CanCall == Len(Live) < MaxOps

(* validateChain from its start to its first await: the loop reads block 0 *)
(* and calls validate(), whose executor runs at once; an empty chain       *)
(* resolves with the empty list.                                           *)
EnterValidateChain(op, c) ==
    IF Len(c) = 0
    THEN [op EXCEPT !.errorLog = <<>>, !.i = 0]
    ELSE [op EXCEPT !.errorLog = <<>>, !.i = 1, !.isValid = Validate(c[1]),
                    !.pc = "validate"]

\* A slip: a challenge is refused from the last second of its window on.
Expired_AtWindow(message, t) == t - TimeInMessage(message) >= Window

\* currentTime - timeInMessage > 300
Expired(message, t) == t - TimeInMessage(message) > Window

\* A slip: the signature is checked before the expiry.
SubmitGate_SignatureFirst(address, message, signature, t) ==
    IF ~Verify(message, address, signature)
    THEN "Error detected with signature"
    ELSE IF t - TimeInMessage(message) > Window THEN "5 miutes have passed"
    ELSE ""

(* A slip: a challenge that a block of the chain already carries is        *)
(* refused.                                                                *)
SubmitGate_UsedOnce(address, message, signature, t) ==
    IF t - TimeInMessage(message) > Window THEN "5 miutes have passed"
    ELSE IF ~Verify(message, address, signature)
    THEN "Error detected with signature"
    ELSE IF \E k \in 2..Len(chain) : DecodeBody(chain[k].body).message = message
    THEN "Challenge already used"
    ELSE ""

(* The checks of submitStar before it creates the block, in their order:   *)
(* the reason it rejects with, or "" when the submission passes.           *)
SubmitGate(address, message, signature, t) ==
    IF Expired(message, t) THEN "5 miutes have passed"
    ELSE IF ~Verify(message, address, signature)
    THEN "Error detected with signature"
    ELSE ""

(* A slip: the block is created and pushed before the checks are made.     *)
SubmitStar_PushFirst(address, message, signature, star) ==
    /\ CanCall
    /\ Len(chain) < MaxChain
    /\ LET op == [NewOp("submitStar") EXCEPT
                    !.address = address, !.message = message,
                    !.signature = signature, !.star = star]
           newBlock == Block(StarData(address, message, signature, star))
           gate == SubmitGate(address, message, signature, now)
           entered == EnterValidateChain(op, PushBlock(chain, newBlock, now))
       IN  /\ chain' = PushBlock(chain, newBlock, now)
           /\ height' = HeightAfterPush(chain, newBlock, now)
           /\ sealed' = Append(sealed, SealBlock(chain, newBlock, now))
           /\ ops' = Append(Live,
                   IF gate # ""
                   THEN [op EXCEPT !.verified = ~Expired(message, now),
                                   !.settled = "rejected", !.reason = gate]
                   ELSE [entered EXCEPT !.verified = TRUE,
                                        !.blockAt = Len(chain) + 1,
                                        !.addBlock = "pending"])
    /\ UNCHANGED <<now, tampers>>

(* submitStar(address, message, signature, star), up to the await inside   *)
(* _addBlock.                                                              *)
SubmitStar(address, message, signature, star) ==
    /\ CanCall
    /\ LET op == [NewOp("submitStar") EXCEPT
                    !.address = address, !.message = message,
                    !.signature = signature, !.star = star]
           newBlock == Block(StarData(address, message, signature, star))
           gate == SubmitGate(address, message, signature, now)
       IN  IF gate # ""
           THEN /\ ops' = Append(Live, [op EXCEPT
                                          !.verified = ~Expired(message, now),
                                          !.settled = "rejected",
                                          !.reason = gate])
                /\ UNCHANGED <<chain, height, sealed>>
           ELSE /\ Len(chain) < MaxChain
                /\ chain' = PushBlock(chain, newBlock, now)
                /\ height' = HeightAfterPush(chain, newBlock, now)
                /\ sealed' = Append(sealed, SealBlock(chain, newBlock, now))
                /\ ops' = Append(Live,
                        IF Len(chain) = 0
                        THEN [op EXCEPT !.verified = TRUE, !.blockAt = 1,
                                        !.addBlock = "resolved", !.pc = "submit"]
                        ELSE LET entered == EnterValidateChain(op, chain')
                             IN  [entered EXCEPT !.verified = TRUE,
                                                 !.blockAt = Len(chain'),
                                                 !.addBlock = "pending"])
    /\ UNCHANGED <<now, tampers>>

(* validateChain resumes after `await block.validate()`: the error of      *)
(* block i is logged under the block's height, and the loop goes on to the *)
(* next block of the chain as it is now, or resolves with the list.        *)
ValidateResume(o) ==
    /\ o \in 1..Len(ops)
    /\ ops[o].pc = "validate"
    /\ LET op == ops[o]
           log == IF op.isValid THEN op.errorLog
                  ELSE Append(op.errorLog, chain[op.i].height)
       IN  ops' = [ops EXCEPT ![o] =
               IF op.i + 1 <= Len(chain)
               THEN [op EXCEPT !.errorLog = log, !.i = op.i + 1,
                               !.isValid = Validate(chain[op.i + 1])]
               ELSE IF op.kind = "validateChain"
               THEN [op EXCEPT !.errorLog = log, !.pc = "done",
                               !.settled = "resolved"]
               ELSE [op EXCEPT !.errorLog = log, !.pc = "addBlock"]]
    /\ UNCHANGED <<chain, height, now, sealed, tampers>>

(* A slip: a failed validation takes the new block off the chain again.    *)
AddBlockResume_Rollback(o) ==
    /\ o \in 1..Len(ops)
    /\ ops[o].pc = "addBlock"
    /\ ops' = [ops EXCEPT ![o] =
            IF Len(ops[o].errorLog) = 0
            THEN [@ EXCEPT !.addBlock = "resolved", !.pc = "submit"]
            ELSE [@ EXCEPT !.addBlock = "rejected", !.pc = "submit"]]
    /\ IF Len(ops[o].errorLog) = 0
       THEN UNCHANGED <<chain, height, sealed>>
       ELSE /\ chain' = SubSeq(chain, 1, Len(chain) - 1)
            /\ sealed' = SubSeq(sealed, 1, Len(sealed) - 1)
            /\ height' = height - 1
    /\ UNCHANGED <<now, tampers>>

(* _addBlock resumes after `await self.validateChain()`.                   *)
AddBlockResume(o) ==
    /\ o \in 1..Len(ops)
    /\ ops[o].pc = "addBlock"
    /\ ops' = [ops EXCEPT ![o] =
            IF Len(ops[o].errorLog) = 0
            THEN [@ EXCEPT !.addBlock = "resolved", !.pc = "submit"]
            ELSE [@ EXCEPT !.addBlock = "rejected", !.pc = "submit"]]
    /\ UNCHANGED <<chain, height, now, sealed, tampers>>

(* submitStar resumes after `await self._addBlock(newBlock)`.  A rejected  *)
(* _addBlock makes the await throw inside the async executor: the          *)
(* executor's own promise rejects, which nothing handles, and neither      *)
(* resolve nor reject of submitStar's promise is ever called.              *)
(* initializeChain resumes after `await this._addBlock(block)`: it is an   *)
(* async function, whose promise settles as the awaited one did.           *)
SubmitResume(o) ==
    /\ o \in 1..Len(ops)
    /\ ops[o].pc = "submit"
    /\ ops' = [ops EXCEPT ![o] =
            IF ops[o].addBlock = "resolved"
            THEN [@ EXCEPT !.settled = "resolved", !.pc = "done"]
            ELSE IF ops[o].kind = "initializeChain"
            THEN [@ EXCEPT !.settled = "rejected",
                           !.reason = "Chain validation failed.",
                           !.pc = "done"]
            ELSE [@ EXCEPT !.unhandled = @ + 1, !.pc = "done"]]
    /\ UNCHANGED <<chain, height, now, sealed, tampers>>

\* validateChain(), called from outside.
ValidateChain ==
    /\ CanCall
    /\ LET entered == EnterValidateChain(NewOp("validateChain"), chain)
       IN  ops' = Append(Live,
               IF entered.pc = "validate" THEN entered
               ELSE [entered EXCEPT !.settled = "resolved"])
    /\ UNCHANGED <<chain, height, now, sealed, tampers>>

(* getStarsByWalletAddress(address): forEach runs its async callback on    *)
(* every block; each callback calls getBData(), whose executor runs at     *)
(* once, and suspends at its await.  Then resolve(stars) is called with    *)
(* the array the callbacks will push into.                                 *)
GetStarsByWalletAddress(address) ==
    /\ CanCall
    /\ ops' = Append(Live,
            [NewOp("getStars") EXCEPT
                !.address = address,
                !.decodes = [k \in 1..Len(chain) |-> getBData(chain[k])],
                !.stars = <<>>,
                !.settled = "resolved",
                !.i = IF Len(chain) = 0 THEN 0 ELSE 1,
                !.pc = IF Len(chain) = 0 THEN "done" ELSE "decode"])
    /\ UNCHANGED <<chain, height, now, sealed, tampers>>

(* The forEach callback of block i resumes after `await block.getBData()`: *)
(* a payload of the address is pushed; a rejected getBData makes the await *)
(* throw, which rejects the callback's own promise, and nothing handles    *)
(* it.  The callbacks resume in the order they were suspended.             *)
DecodeResume(o) ==
    /\ o \in 1..Len(ops)
    /\ ops[o].pc = "decode"
    /\ LET op == ops[o]
           d == op.decodes[op.i]
           after ==
               IF d.settled = "rejected"
               THEN [op EXCEPT !.unhandled = @ + 1]
               ELSE IF d.data.address = op.address
               THEN [op EXCEPT !.stars = Append(@, d.data)]
               ELSE op
       IN  ops' = [ops EXCEPT ![o] =
               [after EXCEPT !.i = op.i + 1,
                             !.pc = IF op.i + 1 <= Len(op.decodes)
                                    THEN "decode" ELSE "done"]]
    /\ UNCHANGED <<chain, height, now, sealed, tampers>>

----------------------------------------------------------------------------
(* Modification from outside: the blocks are plain objects that            *)
(* getBlockByHeight and getBlockByHash hand out, and any holder can assign *)
(* to their fields.                                                        *)

Fields == {"hash", "height", "body", "time", "previousBlockHash"}

\* A star payload no call of the model submits.
ForgedBody ==
    LET message == requestMessageOwnershipVerification("B", Start)
    IN  EncodeBody(StarData("B", message, Sign("B", message), <<65>>))

\* The values an outsider writes into a field.
TamperValues(field) ==
    CASE field = "hash" -> {Null, Forged}
      [] field = "height" -> {0, 1}
      [] field = "body" -> {GarbageBody, ForgedBody}
      [] field = "time" -> {0}
      [] field = "previousBlockHash" -> {Null, NaN, Forged}

FieldOf(block, field) ==
    CASE field = "hash" -> block.hash
      [] field = "height" -> block.height
      [] field = "body" -> block.body
      [] field = "time" -> block.time
      [] field = "previousBlockHash" -> block.previousBlockHash

WithField(block, field, v) ==
    CASE field = "hash" -> [block EXCEPT !.hash = v]
      [] field = "height" -> [block EXCEPT !.height = v]
      [] field = "body" -> [block EXCEPT !.body = v]
      [] field = "time" -> [block EXCEPT !.time = v]
      [] field = "previousBlockHash" -> [block EXCEPT !.previousBlockHash = v]

\* The calls made before the modification.
Interfere(op) == [op EXCEPT !.interfered = TRUE]

\* chain[k - 1][field] = v, assigned from outside.
Tamper(k, field, v) ==
    /\ tampers < MaxTamper
    /\ k \in 1..Len(chain)
    /\ v # FieldOf(chain[k], field)
    /\ chain' = [chain EXCEPT ![k] = WithField(@, field, v)]
    /\ tampers' = tampers + 1
    /\ ops' = [o \in 1..Len(ops) |-> Interfere(ops[o])]
    /\ UNCHANGED <<height, now, sealed>>

(* The outsider recomputes the hash of a block it modified, as validate()  *)
(* computes it.                                                            *)
Reseal(k) ==
    /\ k \in 1..Len(chain)
    /\ ~Validate(chain[k])
    /\ chain' = [chain EXCEPT ![k] =
            WithField(chain[k], "hash",
                      SHA256(JsonStringify([chain[k] EXCEPT !.hash = Null])))]
    /\ ops' = [o \in 1..Len(ops) |-> Interfere(ops[o])]
    /\ UNCHANGED <<height, now, sealed, tampers>>

\* Time passes.
Tick ==
    /\ \E t \in Instants : t > now /\ now' = t
    /\ UNCHANGED <<chain, height, ops, sealed, tampers>>

----------------------------------------------------------------------------
(* new Blockchain(): chain = [], height = -1, then initializeChain(), which *)
(* finds height -1 and runs _addBlock on the genesis block up to its       *)
(* resolve, all before the constructor returns.                            *)

GenesisBlock == Block(GenesisData)

Init ==
    /\ now = Start
    /\ chain = PushBlock(<<>>, GenesisBlock, Start)
    /\ height = HeightAfterPush(<<>>, GenesisBlock, Start)
    /\ sealed = chain
    /\ ops = <<>>
    /\ tampers = 0

(* A slip: initializeChain adds a genesis block whatever the height is.    *)
InitializeChain_Always ==
    /\ CanCall
    /\ Len(chain) < MaxChain
    /\ chain' = PushBlock(chain, GenesisBlock, now)
    /\ height' = HeightAfterPush(chain, GenesisBlock, now)
    /\ sealed' = Append(sealed, SealBlock(chain, GenesisBlock, now))
    /\ ops' = Append(Live,
            LET entered == EnterValidateChain(NewOp("initializeChain"), chain')
            IN  [entered EXCEPT !.blockAt = Len(chain'),
                                !.addBlock = "pending"])
    /\ UNCHANGED <<now, tampers>>

(* initializeChain(), called again after construction: when the cached     *)
(* height is -1 the genesis block is created and handed to _addBlock,      *)
(* which runs up to its resolve (empty chain) or to the await of its       *)
(* validateChain; otherwise the function returns at once.                  *)
InitializeChain ==
    /\ CanCall
    /\ LET op == NewOp("initializeChain")
       IN  IF height = -1
           THEN /\ Len(chain) < MaxChain
                /\ chain' = PushBlock(chain, GenesisBlock, now)
                /\ height' = HeightAfterPush(chain, GenesisBlock, now)
                /\ sealed' = Append(sealed, SealBlock(chain, GenesisBlock, now))
                /\ ops' = Append(Live,
                        IF Len(chain) = 0
                        THEN [op EXCEPT !.blockAt = 1,
                                        !.addBlock = "resolved", !.pc = "submit"]
                        ELSE LET entered == EnterValidateChain(op, chain')
                             IN  [entered EXCEPT !.blockAt = Len(chain'),
                                                 !.addBlock = "pending"])
           ELSE /\ ops' = Append(Live, [op EXCEPT !.settled = "resolved"])
                /\ UNCHANGED <<chain, height, sealed>>
    /\ UNCHANGED <<now, tampers>>

\* The index of the first block chain.find(test) stops at, 0 when none.
Find(c, matches) ==
    IF matches = {} THEN 0
    ELSE CHOOSE k \in matches : \A j \in matches : k <= j

\* A slip: the height is used as the index into the chain, counted from 1.
getBlockByHeight_Index(c, h) == IF h \in 1..Len(c) THEN c[h] ELSE Null

(* What getBlockByHeight resolves with: the first block of that height,    *)
(* or null.                                                                *)
getBlockByHeight(c, h) ==
    LET k == Find(c, {j \in 1..Len(c) : c[j].height = h})
    IN  IF k = 0 THEN Null ELSE c[k]

(* What getBlockByHash resolves with: the first block of that hash, or     *)
(* null.                                                                   *)
getBlockByHash(c, hash) ==
    LET k == Find(c, {j \in 1..Len(c) : c[j].hash = hash})
    IN  IF k = 0 THEN Null ELSE c[k]

\* getBlockByHeight(h): the executor runs and resolves at once.
GetBlockByHeight(h) ==
    /\ CanCall
    /\ ops' = Append(Live, [NewOp("getBlockByHeight") EXCEPT
                              !.argument = h,
                              !.result = getBlockByHeight(chain, h),
                              !.settled = "resolved"])
    /\ UNCHANGED <<chain, height, now, sealed, tampers>>

\* getBlockByHash(hash): the executor runs and resolves at once.
GetBlockByHash(hash) ==
    /\ CanCall
    /\ ops' = Append(Live, [NewOp("getBlockByHash") EXCEPT
                              !.argument = hash,
                              !.result = getBlockByHash(chain, hash),
                              !.settled = "resolved"])
    /\ UNCHANGED <<chain, height, now, sealed, tampers>>

\* A slip: the length of the chain is given for its height.
GetChainHeight_Length ==
    /\ CanCall
    /\ ops' = Append(Live, [NewOp("getChainHeight") EXCEPT
                              !.result = Len(chain),
                              !.settled = "resolved"])
    /\ UNCHANGED <<chain, height, now, sealed, tampers>>

\* getChainHeight(): resolve(this.height)
GetChainHeight ==
    /\ CanCall
    /\ ops' = Append(Live, [NewOp("getChainHeight") EXCEPT
                              !.result = height,
                              !.settled = "resolved"])
    /\ UNCHANGED <<chain, height, now, sealed, tampers>>

\* A suspended submitStar or validateChain resumes.
Resume ==
    \E o \in 1..MaxOps :
        \/ ValidateResume(o)
        \/ AddBlockResume(o)
        \/ SubmitResume(o)

\* A suspended callback of getStarsByWalletAddress resumes.
ResumeQuery == \E o \in 1..MaxOps : DecodeResume(o)

\* An owner submits a star with a signed challenge.
Submit ==
    \E address \in Addresses, t \in IssueTimes, star \in Stars :
        LET message == requestMessageOwnershipVerification(address, t)
        IN  SubmitStar(address, message, Sign(address, message), star)

\* A star is submitted for address "A", signed by its owner or by another.
Gate ==
    \E signer \in Addresses, t \in IssueTimes, star \in Stars :
        LET message == requestMessageOwnershipVerification("A", t)
        IN  SubmitStar("A", message, Sign(signer, message), star)

Query == \E address \in Addresses : GetStarsByWalletAddress(address)

Outsider ==
    \/ \E k \in 1..MaxChain, field \in Fields :
            \E v \in TamperValues(field) : Tamper(k, field, v)
    \/ \E k \in 1..MaxChain : Reseal(k)

(* The registry under concurrent calls, within one second of the clock.    *)
Next ==
    \/ Submit
    \/ Resume
    \/ ValidateChain
    \/ Query
    \/ ResumeQuery

Spec == Init /\ [][Next]_vars

(* The registry as the clock runs: the gate of submitStar.                 *)
NextClock ==
    \/ Gate
    \/ Resume
    \/ Tick

SpecClock == Init /\ [][NextClock]_vars

\* The owner of address "A" submits a star with a signed challenge.
SubmitA ==
    \E t \in IssueTimes, star \in Stars :
        LET message == requestMessageOwnershipVerification("A", t)
        IN  SubmitStar("A", message, Sign("A", message), star)

\* No call is in flight.
Idle == Len(Live) = 0

(* The registry with an outsider that modifies blocks in place, at any     *)
(* moment, while a client makes one call after the other.                  *)
NextTamper ==
    \/ Idle /\ SubmitA
    \/ Resume
    \/ Idle /\ ValidateChain
    \/ Outsider

SpecTamper == Init /\ [][NextTamper]_vars

\* The heights a client asks for: those of the chain and one beyond.
Heights == 0..MaxChain

\* A block is looked up by a height.
LookupHeight == \E h \in Heights : GetBlockByHeight(h)

(* A block is looked up by the hash of a block of the chain, by a hash no  *)
(* block has, or by null.                                                  *)
LookupHash ==
    \E hash \in {chain[k].hash : k \in 1..Len(chain)} \cup {Forged, Null} :
        GetBlockByHash(hash)

(* The registry read while stars are submitted: lookups and height reads   *)
(* made at every await of the submissions in flight.                       *)
NextRead ==
    \/ Submit
    \/ Resume
    \/ LookupHeight
    \/ LookupHash
    \/ GetChainHeight
    \/ InitializeChain

SpecRead == Init /\ [][NextRead]_vars

(* The registry under the calls that write, validate and scan the chain,   *)
(* interleaved at every await, with one owner submitting.                  *)
NextChain ==
    \/ SubmitA
    \/ Resume
    \/ ValidateChain
    \/ Query
    \/ ResumeQuery
    \/ InitializeChain
    \/ GetChainHeight

SpecChain == Init /\ [][NextChain]_vars

(* Star texts a client submits: "", "A", the non-ASCII "\u00E9" and both    *)
(* together, as sequences of character codes.                              *)
Texts == {<<>>, <<65>>, <<233>>, <<65, 233>>}

\* The owner of address "A" submits a star of any of the texts.
SubmitText ==
    \E t \in IssueTimes, star \in Texts :
        LET message == requestMessageOwnershipVerification("A", t)
        IN  SubmitStar("A", message, Sign("A", message), star)

(* The registry as payloads are stored and decoded.                        *)
NextPayload ==
    \/ SubmitText
    \/ Resume
    \/ Query
    \/ ResumeQuery

SpecPayload == Init /\ [][NextPayload]_vars

----------------------------------------------------------------------------
(* The claims. *)

IsSubmit(op) == op.kind = "submitStar"

\* The call reached _addBlock and pushed its block.
Appended(op) == IsSubmit(op) /\ op.blockAt # 0

\* The call is suspended at one of its awaits.
InFlight(op) == op.pc \in {"validate", "addBlock", "submit"}

(* C1: hash-link property.  With no modification from outside, in every   *)
(* reachable state every block's height is its index in the chain, the     *)
(* genesis block's previousBlockHash is null and every other block's       *)
(* previousBlockHash is the hash of the block before it.                   *)
C1_HashLink ==
    \A k \in 1..Len(chain) :
        /\ chain[k].height = k - 1
        /\ k = 1 => chain[k].previousBlockHash = Null
        /\ k > 1 => chain[k].previousBlockHash = chain[k - 1].hash

\* Two stars were appended and a submitStar call resolved.
C1_Witness ==
    /\ Len(chain) >= 3
    /\ \E o \in 1..Len(ops) : Appended(ops[o]) /\ ops[o].settled = "resolved"

(* C2: concurrency safety.  However the submitStar calls in flight         *)
(* interleave at their awaits, every call that passed the gate has its own *)
(* block in the chain, the chain has nothing but the genesis block and     *)
(* such blocks at contiguous heights, and no two blocks share a height or  *)
(* a previousBlockHash.                                                    *)
C2_ConcurrentAppends ==
    /\ \A j, k \in 1..Len(chain) :
          j # k => /\ chain[j].height # chain[k].height
                   /\ chain[j].previousBlockHash # chain[k].previousBlockHash
    /\ \A k \in 1..Len(chain) : chain[k].height = k - 1
    /\ \A k \in 2..Len(chain) : chain[k].previousBlockHash = chain[k - 1].hash
    /\ \A o \in 1..Len(ops) :
          Appended(ops[o]) =>
              /\ ops[o].blockAt \in 2..Len(chain)
              /\ chain[ops[o].blockAt].body =
                     EncodeBody(StarData(ops[o].address, ops[o].message,
                                         ops[o].signature, ops[o].star))
    /\ \A o, q \in 1..Len(ops) :
          (o # q /\ Appended(ops[o]) /\ Appended(ops[q]))
              => ops[o].blockAt # ops[q].blockAt

\* Two submitStar calls are suspended at once, each with its block pushed.
C2_Witness ==
    \E o, q \in 1..Len(ops) :
        /\ o # q
        /\ Appended(ops[o]) /\ InFlight(ops[o])
        /\ Appended(ops[q]) /\ InFlight(ops[q])
        /\ ops[o].pc = "validate" /\ ops[q].pc = "validate"

C10_SealedValid ==
    /\ \A k \in 1..Len(chain) :
          /\ chain[k].hash =
                 SHA256(<<Null, chain[k].height, chain[k].body, chain[k].time,
                          chain[k].previousBlockHash>>)
          /\ Validate(chain[k])
    /\ \A o \in 1..Len(ops) : ops[o].errorLog = <<>>

\* validateChain(), called on a chain of three blocks, resolved with [].
C10_Witness ==
    \E o \in 1..Len(ops) :
        /\ ops[o].kind = "validateChain"
        /\ ops[o].settled = "resolved"
        /\ ops[o].i >= 3
        /\ ops[o].errorLog = <<>>

----------------------------------------------------------------------------
\* The seconds between the challenge's timestamp and the call.
Elapsed(op) == op.callTime - TimeInMessage(op.message)

ValidlySigned(op) == Verify(op.message, op.address, op.signature)

RejectedFor(op, reason) == op.settled = "rejected" /\ op.reason = reason

C7_CheckOrder ==
    \A o \in 1..Len(ops) :
        IsSubmit(ops[o]) =>
            /\ (Elapsed(ops[o]) > 300 /\ ~ValidlySigned(ops[o]))
                  => RejectedFor(ops[o], "5 miutes have passed")
            /\ (Elapsed(ops[o]) <= 300 /\ ~ValidlySigned(ops[o]))
                  => /\ RejectedFor(ops[o], "Error detected with signature")
                     /\ ops[o].addBlock = "none"
                     /\ ops[o].blockAt = 0
            /\ ops[o].addBlock # "none"
                  => Elapsed(ops[o]) <= 300 /\ ValidlySigned(ops[o])

\* An expired, wrongly signed submission was rejected.
C7_Witness ==
    \E o \in 1..Len(ops) :
        /\ IsSubmit(ops[o])
        /\ Elapsed(ops[o]) > 300
        /\ ~ValidlySigned(ops[o])
        /\ ops[o].settled = "rejected"

----------------------------------------------------------------------------
\* The payloads of the first n blocks that getBData() resolves with and that
\* carry the address, in chain order.
RECURSIVE StarsOf(_, _)
StarsOf(address, n) ==
    IF n = 0 THEN <<>>
    ELSE LET d == getBData(chain[n])
         IN  IF d.settled = "resolved" /\ d.data.address = address
             THEN Append(StarsOf(address, n - 1), d.data)
             ELSE StarsOf(address, n - 1)

(* C8: identity query correctness.  Whenever the promise of                *)
(* getStarsByWalletAddress(A) is resolved, its result holds the decoded    *)
(* payloads of the blocks of A that were in the chain at the call, in      *)
(* chain order, and nothing else.                                          *)
C8_ResultCompleteAtResolve ==
    \A o \in 1..Len(ops) :
        (ops[o].kind = "getStars" /\ ops[o].settled = "resolved")
            => ops[o].stars = StarsOf(ops[o].address, Len(ops[o].decodes))

----------------------------------------------------------------------------
\* The fields of block k that differ from the block as it was sealed.
ChangedFields(k) ==
    {f \in Fields : FieldOf(chain[k], f) # FieldOf(sealed[k], f)}

\* Field f of block k, and nothing else in the chain, was changed.
SingleTamper(k, f) ==
    /\ ChangedFields(k) = {f}
    /\ \A j \in 1..Len(chain) : j # k => chain[j] = sealed[j]

\* A validateChain() of the call, begun on the chain as it is now, has
\* resolved: the call itself, or the one inside its _addBlock.
ValidatedNow(op) ==
    /\ ~op.interfered
    /\ \/ op.kind = "validateChain" /\ op.pc = "done"
       \/ IsSubmit(op) /\ op.addBlock # "none"
                       /\ op.pc \in {"addBlock", "submit", "done"}

(* C3: tamper detection.  When one field of one block was changed to       *)
(* another value, validate() is false of that block and validateChain()    *)
(* returns exactly one entry, the one naming that block.                   *)
C3_AnyChangeDetected ==
    \A k \in 1..Len(chain), f \in Fields :
        SingleTamper(k, f) =>
            /\ ~Validate(chain[k])
            /\ \A o \in 1..Len(ops) :
                  ValidatedNow(ops[o]) => ops[o].errorLog = <<k - 1>>

(* What the code does detect: when one field of one block was changed to   *)
(* a value that JSON.stringify writes differently (for the hash: to any    *)
(* other value), validate() is false of that block and true of every       *)
(* other block, and validateChain() returns exactly one entry, which       *)
(* carries the height field of that block as it is now.                    *)
TamperDetected ==
    \A k \in 1..Len(chain), f \in Fields :
        (/\ SingleTamper(k, f)
         /\ f = "previousBlockHash" =>
                JsonValue(chain[k].previousBlockHash)
                    # JsonValue(sealed[k].previousBlockHash))
            => /\ ~Validate(chain[k])
               /\ \A j \in 1..Len(chain) : j # k => Validate(chain[j])
               /\ \A o \in 1..Len(ops) :
                     ValidatedNow(ops[o])
                         => /\ ops[o].errorLog = <<chain[k].height>>
                            /\ f # "height" => ops[o].errorLog = <<k - 1>>

\* The body of the second block was changed and validateChain() named it.
TamperDetected_Witness ==
    /\ Len(chain) >= 3
    /\ SingleTamper(2, "body")
    /\ \E o \in 1..Len(ops) :
          /\ ops[o].kind = "validateChain"
          /\ ValidatedNow(ops[o])
          /\ ops[o].errorLog = <<1>>

(* C4: validateChain() detects every broken link.  Whenever                *)
(* validateChain() returns the empty list, every block but the first       *)
(* carries the hash now stored in the block before it.                     *)
C4_EmptyMeansLinked ==
    \A o \in 1..Len(ops) :
        (ValidatedNow(ops[o]) /\ ops[o].errorLog = <<>>)
            => \A k \in 2..Len(chain) :
                  chain[k].previousBlockHash = chain[k - 1].hash

(* C5: every submitStar call settles.  A call with nothing left to run has *)
(* resolved or rejected, and it has rejected when its _addBlock rejected.  *)
C5_SubmitSettles ==
    \A o \in 1..Len(ops) :
        (IsSubmit(ops[o]) /\ ops[o].pc = "done")
            => /\ ops[o].settled \in {"resolved", "rejected"}
               /\ ops[o].addBlock = "rejected" => ops[o].settled = "rejected"

----------------------------------------------------------------------------
(* C11: append-only growth.  Whatever call is made or resumed             *)
(* (initializeChain, submitStar and its _addBlock, validateChain,          *)
(* getStarsByWalletAddress, getChainHeight), the chain before the step is  *)
(* a prefix of the chain after it: the chain does not get shorter, and     *)
(* every block stays at its index with every field as it was.              *)
C11_AppendOnly ==
    [][/\ Len(chain') >= Len(chain)
       /\ \A k \in 1..Len(chain) : chain'[k] = chain[k]]_vars

(* Two stars were appended, initializeChain was called again while another *)
(* call was suspended, and every block is as it was when it was pushed.    *)
C11_Witness ==
    /\ Len(chain) >= 3
    /\ chain = sealed
    /\ \E o, q \in 1..Len(ops) :
          /\ ops[o].kind = "initializeChain" /\ ops[o].settled = "resolved"
          /\ InFlight(ops[q])

----------------------------------------------------------------------------
(* C12: lookup contract.  With no modification from outside, for every     *)
(* block b of the chain getBlockByHeight(b.height) and                     *)
(* getBlockByHash(b.hash) resolve with b; every lookup resolves, with the  *)
(* block at the index of the height or with the block of that hash, and    *)
(* with null when no block has the height or the hash; the block a         *)
(* resolved submitStar pushed is the one getBlockByHeight gives for its    *)
(* height.                                                                 *)
C12_Lookup ==
    /\ \A k \in 1..Len(chain) :
          /\ getBlockByHeight(chain, chain[k].height) = chain[k]
          /\ getBlockByHash(chain, chain[k].hash) = chain[k]
    /\ \A o \in 1..Len(ops) :
          /\ ops[o].kind = "getBlockByHeight" =>
                /\ ops[o].settled = "resolved"
                /\ ops[o].result =
                       IF ops[o].argument \in 0..(Len(chain) - 1)
                       THEN chain[ops[o].argument + 1] ELSE Null
          /\ ops[o].kind = "getBlockByHash" =>
                /\ ops[o].settled = "resolved"
                /\ \A k \in 1..Len(chain) :
                      chain[k].hash = ops[o].argument => ops[o].result = chain[k]
                /\ (\A k \in 1..Len(chain) : chain[k].hash # ops[o].argument)
                      => ops[o].result = Null
          /\ (Appended(ops[o]) /\ ops[o].settled = "resolved") =>
                getBlockByHeight(chain, chain[ops[o].blockAt].height)
                    = chain[ops[o].blockAt]

(* getBlockByHeight(1) resolved with the first star of a chain of three    *)
(* blocks.                                                                 *)
C12_Witness ==
    /\ Len(chain) >= 3
    /\ \E o \in 1..Len(ops) :
          /\ ops[o].kind = "getBlockByHeight"
          /\ ops[o].argument = 1
          /\ ops[o].result = chain[2]
          /\ ops[o].result.body.kind = "star"

----------------------------------------------------------------------------
\* The payload object the call handed to new Block.
Payload(op) == StarData(op.address, op.message, op.signature, op.star)

(* C13: payload round trip.  For every payload a submitStar call stored,   *)
(* getBData() on the block built from it resolves with a value equal to    *)
(* the payload.                                                            *)
C13_RoundTrip ==
    \A o \in 1..Len(ops) :
        Appended(ops[o]) =>
            getBData(chain[ops[o].blockAt]) =
                [settled |-> "resolved", reason |-> "",
                 data |-> Payload(ops[o])]

----------------------------------------------------------------------------
\* The _addBlock of the call rejected: its validateChain logged an error.
AppendFailed(op) == Appended(op) /\ op.addBlock = "rejected"

(* C14: no rollback on failed post-append validation.  With an outsider    *)
(* modifying blocks and calls made one after the other: once the           *)
(* _addBlock of a submitStar has rejected, the block it pushed is still    *)
(* the last element of the chain and the chain height is still the height  *)
(* that block was given; and the next block appended takes that block's    *)
(* hash as its previousBlockHash and its height plus one as its height,    *)
(* the chain before it staying in place.                                   *)
C14_NoRollback ==
    /\ [](\A o \in 1..Len(ops) :
            AppendFailed(ops[o]) =>
                /\ Len(chain) = ops[o].blockAt
                /\ Len(sealed) = Len(chain)
                /\ height = sealed[ops[o].blockAt].height)
    /\ [][\A o \in 1..Len(ops) :
            (AppendFailed(ops[o]) /\ chain' # chain) =>
                \/ Len(chain') = Len(chain)
                \/ /\ Len(chain') = Len(chain) + 1
                   /\ SubSeq(chain', 1, Len(chain)) = chain
                   /\ chain'[Len(chain')].previousBlockHash =
                          chain[ops[o].blockAt].hash
                   /\ chain'[Len(chain')].height =
                          chain[ops[o].blockAt].height + 1
                   /\ height' = chain'[Len(chain')].height]_vars

(* The _addBlock of the call that pushed the third block rejected, and     *)
(* that block is the last of the chain.                                    *)
C14_Witness ==
    /\ Len(chain) = 3
    /\ height = 2
    /\ \E o \in 1..Len(ops) :
          /\ AppendFailed(ops[o])
          /\ ops[o].blockAt = 3
          /\ ops[o].pc = "done"
          /\ chain[3].previousBlockHash = chain[2].hash

----------------------------------------------------------------------------
(* C15: a gated-out submission has no effect.  In every step in which a    *)
(* submitStar call is made and rejects, for the expired challenge or for   *)
(* the signature, the chain and the chain height after the step are what   *)
(* they were before it.                                                    *)
C15_GatedOutNoEffect ==
    [][(/\ Len(ops') > 0
        /\ ops' = Append(Live, ops'[Len(ops')])
        /\ IsSubmit(ops'[Len(ops')])
        /\ ops'[Len(ops')].settled = "rejected")
            => (chain' = chain /\ height' = height)]_vars

(* The window over, a call with the owner's signature was rejected; the    *)
(* chain holds the genesis block and the star of an earlier call, as they  *)
(* were pushed.                                                            *)
C15_Witness ==
    /\ Len(chain) = 2
    /\ height = 1
    /\ chain = sealed
    /\ \E o \in 1..Len(ops) :
          /\ RejectedFor(ops[o], "5 miutes have passed")
          /\ ValidlySigned(ops[o])
          /\ ops[o].blockAt = 0

----------------------------------------------------------------------------
(* C16: best-effort identity scan.  In getStarsByWalletAddress a block     *)
(* whose getBData() rejects is skipped with the failure handled inside the *)
(* query: the promise of the query is not rejected, no rejection is left   *)
(* without a handler, and when nothing of the query is left to run every   *)
(* block has been processed.                                               *)
C16_DecodeFailureHandled ==
    \A o \in 1..Len(ops) :
        ops[o].kind = "getStars" =>
            /\ ops[o].settled # "rejected"
            /\ ops[o].unhandled = 0
            /\ ops[o].pc = "done" => ops[o].i = Len(ops[o].decodes) + 1

----------------------------------------------------------------------------
----------------------------------------------------------------------------
(* C18: no torn reads.  With calls interleaved at their awaits, in every   *)
(* state between two runs of code every block of the chain array has a     *)
(* hash that is not null, a time and (the genesis block apart) a           *)
(* previousBlockHash that are no longer the constructor's, and is the      *)
(* block as _addBlock finished it; and no step changes the height, time,   *)
(* previousBlockHash or hash of a block that is in the array.              *)
C18_NoTornRead ==
    /\ [](/\ Len(sealed) = Len(chain)
          /\ \A k \in 1..Len(chain) :
                /\ chain[k].hash # Null
                /\ chain[k].time # Block(GenesisData).time
                /\ k > 1 => chain[k].previousBlockHash # Null
                /\ chain[k] = sealed[k])
    /\ [][\A k \in 1..Len(chain) :
            /\ k <= Len(chain')
            /\ chain'[k].height = chain[k].height
            /\ chain'[k].time = chain[k].time
            /\ chain'[k].previousBlockHash = chain[k].previousBlockHash
            /\ chain'[k].hash = chain[k].hash]_vars

(* A submitStar pushed its block while a validateChain called before it    *)
(* was suspended at a block further down the chain; both are suspended.    *)
C18_Witness ==
    \E o, q \in 1..Len(ops) :
        /\ o < q
        /\ ops[o].kind = "validateChain"
        /\ ops[o].pc = "validate"
        /\ Appended(ops[q])
        /\ InFlight(ops[q])
        /\ ops[o].i < ops[q].blockAt

----------------------------------------------------------------------------
\* The block carries the payload of the genesis block.
IsGenesis(block) == block.body = EncodeBody(GenesisData)

(* C19: initializeChain is idempotent.  A step in which initializeChain is *)
(* called while the chain height is not -1 leaves the chain and the chain  *)
(* height as they were; and however often and wherever among the other     *)
(* calls it is called, the first block of the chain is the genesis block   *)
(* and no other block carries the genesis payload.                         *)
C19_InitializeIdempotent ==
    /\ [](/\ Len(chain) >= 1
          /\ \A k \in 1..Len(chain) : IsGenesis(chain[k]) <=> k = 1)
    /\ [][(/\ height # -1
            /\ Len(ops') > 0
            /\ ops' = Append(Live, ops'[Len(ops')])
            /\ ops'[Len(ops')].kind = "initializeChain")
                => (chain' = chain /\ height' = height)]_vars

(* initializeChain() was called on a chain of the genesis block and a star *)
(* and returned without pushing a block.                                   *)
C19_Witness ==
    /\ Len(chain) = 2
    /\ height = 1
    /\ ~IsGenesis(chain[2])
    /\ \E o \in 1..Len(ops) :
          /\ ops[o].kind = "initializeChain"
          /\ ops[o].settled = "resolved"
          /\ ops[o].blockAt = 0

----------------------------------------------------------------------------
(* The blocks, other than the call's own, that carry the address, the      *)
(* challenge message and the signature of the call.                        *)
SameChallenge(op) ==
    {k \in 2..Len(chain) :
        /\ k # op.blockAt
        /\ DecodeBody(chain[k].body).address = op.address
        /\ DecodeBody(chain[k].body).message = op.message
        /\ DecodeBody(chain[k].body).signature = op.signature}

(* C20: challenge replay is possible.  With no modification from outside,  *)
(* a submitStar call made within 300 seconds of the issuance of its        *)
(* challenge, with a valid signature, whose address, message and signature *)
(* another block of the chain carries, is not rejected: it pushes a block  *)
(* of its own, distinct from that block and carrying the same challenge,   *)
(* and once nothing of it is left to run it has resolved.                  *)
C20_Replay ==
    \A o \in 1..Len(ops) :
        (/\ IsSubmit(ops[o])
         /\ ValidlySigned(ops[o])
         /\ Elapsed(ops[o]) <= Window
         /\ SameChallenge(ops[o]) # {}) =>
            /\ ops[o].settled # "rejected"
            /\ ops[o].blockAt \in 2..Len(chain)
            /\ DecodeBody(chain[ops[o].blockAt].body).message = ops[o].message
            /\ \A k \in SameChallenge(ops[o]) :
                  /\ chain[k] # chain[ops[o].blockAt]
                  /\ chain[k].hash # chain[ops[o].blockAt].hash
            /\ ops[o].pc = "done" => ops[o].settled = "resolved"

(* A call made 299 seconds after the issuance resolved with the third      *)
(* block, the second block carrying the same challenge and signature from  *)
(* an earlier call.                                                        *)
C20_Witness ==
    \E o \in 1..Len(ops) :
        /\ IsSubmit(ops[o])
        /\ ops[o].settled = "resolved"
        /\ ops[o].blockAt = 3
        /\ Elapsed(ops[o]) = Window - 1
        /\ 2 \in SameChallenge(ops[o])
        /\ chain[2].time < chain[3].time

====
